---------------------------- MODULE Spec2Model ----------------------------
(***************************************************************************)
(* Secure-launch measured boot (u-root sluinit).                           *)
(*                                                                         *)
(*   - pkg/securelaunch/measurement/events.go : marshalPcrEvent and        *)
(*     sendEventToSysfs (event encoder and event sink);                    *)
(*   - cmds/core/sluinit/uinit.go : checkDebugFlag, main, unmountAndExit   *)
(*     and scanIscsiDrives (the boot orchestrator, prog = "sluinit");      *)
(*   - pkg/gzip/gunzip.go, second half : a second copy of the orchestrator *)
(*     whose init() attaches the netroot volume (prog = "gunzip").         *)
(*                                                                         *)
(* Strings are sequences of one-character strings, byte slices are         *)
(* sequences of 0..255.                                                    *)
(***************************************************************************)
EXTENDS Integers, Sequences, FiniteSets, TLC

VARIABLES
    \* ---- the orchestrator (uinit.go / gunzip.go) ----
    prog,        \* which program runs: "sluinit" or "gunzip"; "none" in SpecEnc
    slDebug,     \* the -d flag (*slDebug)
    nArg,        \* flag.NArg()
    netroot,     \* cmdline.Flag("netroot"): [ok, val]
    initiator,   \* cmdline.Flag("rd.iscsi.initiator"): [ok, val]
    pc,          \* position in init()/main()
    defers,      \* main's stack of deferred calls, last pushed first run
    p,           \* the policy returned by policy.Get: [Collectors |-> n]
    ci,          \* index of the next Collector of the range loop
    calls,       \* the external calls made so far, in order
    attach,      \* arguments of the attach calls made so far
    scanRet,     \* what scanIscsiDrives returned
    exit,        \* <<exit status>> of the process, <<>> while it runs
    out,         \* package log's output, logBuilder, os.Stdout, os.Stderr
                 \* and the data handed to slaunch.AddToPersistQueue
    \* ---- the measurement package (events.go) ----
    ev           \* one sendEventToSysfs / marshalPcrEvent call and the event log

vars == <<prog, slDebug, nArg, netroot, initiator, pc, defers, p, ci, calls,
          attach, scanRet, exit, out, ev>>

orchVars == <<prog, slDebug, nArg, netroot, initiator, pc, defers, p, ci,
              calls, attach, scanRet, exit, out>>

----------------------------------------------------------------------------
(* Bounds *)

MaxCollectors == 2      \* most Collectors in a policy
MaxDigestLen == 2       \* longest enumerated digest (zero32 is added to it)
MaxDescLen == 2         \* longest enumerated description ("test" is added)

----------------------------------------------------------------------------
(* Byte-level helpers *)

RECURSIVE SeqsUpTo(_, _)
SeqsUpTo(S, n) ==
    IF n = 0 THEN {<<>>}
    ELSE LET shorter == SeqsUpTo(S, n - 1)
         IN  shorter \cup {Append(s, x) : s \in {t \in shorter : Len(t) = n - 1}, x \in S}

RECURSIVE Pow256(_)
Pow256(i) == IF i = 0 THEN 1 ELSE 256 * Pow256(i - 1)

\* binary.Write(&buf, binary.LittleEndian, v) for an unsigned integer of w bytes
LittleEndian(v, w) == [i \in 1..w |-> (v \div Pow256(i - 1)) % 256]

\* binary.LittleEndian.Uint32 and friends: the value of a little-endian field
RECURSIVE DecodeLE(_)
DecodeLE(b) == IF b = <<>> THEN 0 ELSE b[1] + 256 * DecodeLE(Tail(b))

----------------------------------------------------------------------------
(* events.go *)

baseTypeTXT == 1024                 \* 0x400
slaunchType == baseTypeTXT + 258    \* uint32(baseTypeTXT + 0x102)
count == 1                          \* count := uint32(1)

\* hashAlgo = tss.HashSHA256; package tss is not part of the sources at hand,
\* the identifier and its width are those of the documented layout
\* ("u32 algorithmId (constant: SHA-256 identifier)").
hashAlgo == 11
hashAlgoSize == 4

\* the loop "for i := uint32(0); i < count; i++": algorithm id, then digest
RECURSIVE marshalDigests(_, _)
marshalDigests(i, h) ==
    IF i < count
    THEN LittleEndian(hashAlgo, hashAlgoSize) \o h \o marshalDigests(i + 1, h)
    ELSE <<>>

\* Faulty marshalPcrEvent: the count field is not written.
marshalPcrEvent_noCount(pcr, h, eventDesc) ==
    LET eventDescLen == Len(eventDesc)
    IN  [b   |-> LittleEndian(pcr, 4) \o LittleEndian(slaunchType, 4)
                 \o marshalDigests(0, h)
                 \o LittleEndian(eventDescLen, 4) \o eventDesc,
         err |-> "nil"]

\* Faulty marshalPcrEvent: the description length is written before the
\* digest instead of after it.
marshalPcrEvent_lenFirst(pcr, h, eventDesc) ==
    LET eventDescLen == Len(eventDesc)
    IN  [b   |-> LittleEndian(pcr, 4) \o LittleEndian(slaunchType, 4)
                 \o LittleEndian(count, 4)
                 \o LittleEndian(eventDescLen, 4)
                 \o marshalDigests(0, h) \o eventDesc,
         err |-> "nil"]

\* marshalPcrEvent writes structure fields piecemeal to buffer.  No write to
\* a bytes.Buffer of a fixed-size value fails, so err is always nil.
\* uint32(len(eventDesc)) is len(eventDesc) for every length below 2^32.
marshalPcrEvent(pcr, h, eventDesc) ==
    LET eventDescLen == Len(eventDesc)
    IN  [b   |-> LittleEndian(pcr, 4) \o LittleEndian(slaunchType, 4)
                 \o LittleEndian(count, 4)
                 \o marshalDigests(0, h)
                 \o LittleEndian(eventDescLen, 4) \o eventDesc,
         err |-> "nil"]

\* sendEventToSysfs(h, pcr, eventDesc); addErr is what eventlog.Add(b) returns.
\* Line 74 returns err, the (nil) error of marshalPcrEvent, not e.
sendEventToSysfs(h, pcr, eventDesc, addErr) ==
    LET m == marshalPcrEvent(pcr, h, eventDesc)
    IN  IF m.err # "nil"
        THEN [ret |-> m.err, b |-> <<>>, added |-> FALSE]
        ELSE IF addErr # "nil"
             THEN [ret |-> m.err, b |-> m.b, added |-> FALSE]
             ELSE [ret |-> "nil", b |-> m.b, added |-> TRUE]

zero32 == [i \in 1..32 |-> 0]
descTest == <<116, 101, 115, 116>>      \* "test"

\* pcr values, up to the largest 31-bit one
Pcrs == {0, 17, 258, 16909060, 2147483647}
Digests == SeqsUpTo({0, 255}, MaxDigestLen) \cup {zero32}
Descs == SeqsUpTo({0, 116}, MaxDescLen) \cup {descTest}
AddErrs == {"nil", "DeviceError"}

EvIdle == [pc |-> "idle", pcr |-> 0, h |-> <<>>, eventDesc |-> <<>>,
           addErr |-> "nil", b |-> <<>>, ret |-> "none", eventlog |-> <<>>]

EvInit ==
    ev \in {[pc |-> "ready", pcr |-> r, h |-> d, eventDesc |-> s,
             addErr |-> e, b |-> <<>>, ret |-> "none", eventlog |-> <<>>] :
            r \in Pcrs, d \in Digests, s \in Descs, e \in AddErrs}

\* a direct call of marshalPcrEvent
MarshalPcrEvent ==
    /\ ev.pc = "ready"
    /\ LET m == marshalPcrEvent(ev.pcr, ev.h, ev.eventDesc)
       IN  ev' = [ev EXCEPT !.pc = "marshalled", !.b = m.b, !.ret = m.err]
    /\ UNCHANGED orchVars

\* a call of sendEventToSysfs
SendEventToSysfs ==
    /\ ev.pc = "ready"
    /\ LET r == sendEventToSysfs(ev.h, ev.pcr, ev.eventDesc, ev.addErr)
       IN  ev' = [ev EXCEPT !.pc = "sent", !.b = r.b, !.ret = r.ret,
                            !.eventlog = IF r.added THEN Append(@, r.b) ELSE @]
    /\ UNCHANGED orchVars


----------------------------------------------------------------------------
(* Strings *)

iscsi == <<"i", "s", "c", "s", "i">>
DoubleColon == <<":", ":">>
ColonAt == <<":", "@">>
Comma == <<",">>
Colon == <<":">>
Port3260 == <<"3", "2", "6", "0">>

\* strings.Index(s, sep) from position i on: where sep first occurs, 0 if nowhere
RECURSIVE IndexFrom(_, _, _)
IndexFrom(s, sep, i) ==
    IF i + Len(sep) - 1 > Len(s) THEN 0
    ELSE IF SubSeq(s, i, i + Len(sep) - 1) = sep THEN i
    ELSE IndexFrom(s, sep, i + 1)

\* strings.Split(s, sep) for a non-empty sep: cut at every occurrence of sep,
\* left to right, occurrences not overlapping; SplitFrom is the rest of the
\* work once the part of s before position from has been cut
RECURSIVE SplitFrom(_, _, _)
SplitFrom(s, sep, from) ==
    LET i == IndexFrom(s, sep, from)
    IN  IF i = 0 THEN <<SubSeq(s, from, Len(s))>>
        ELSE <<SubSeq(s, from, i - 1)>> \o SplitFrom(s, sep, i + Len(sep))

Split(s, sep) == SplitFrom(s, sep, 1)

RECURSIVE Join(_, _)
Join(segs, sep) ==
    IF Len(segs) = 0 THEN <<>>
    ELSE IF Len(segs) = 1 THEN segs[1]
    ELSE segs[1] \o sep \o Join(Tail(segs), sep)

----------------------------------------------------------------------------
(* scanIscsiDrives *)

ScanError(e) == [ret |-> e, attach |-> <<>>, panic |-> FALSE]
ScanPanic == [ret |-> "none", attach |-> <<>>, panic |-> TRUE]

\* Faulty scanIscsiDrives: the absence of rd.iscsi.initiator is not checked.
scanIscsiDrives_noInitiatorCheck(nr, ini, mountErr) ==
    IF ~nr.ok THEN ScanError("netroot flag is not set")
    ELSE
    LET val == nr.val
        s   == Split(val, DoubleColon)
    IN  IF Len(s) # 3 THEN ScanError("incorrect format ::")
        ELSE
        LET port   == s[2]
            volume == s[3]
            tmp    == Split(s[1], ColonAt)
        IN  IF Len(tmp) > 3 \/ Len(tmp) < 2 THEN ScanError("incorrect format :@")
            ELSE IF tmp[1] # iscsi THEN ScanError("incorrect format iscsi:")
            ELSE
            LET ip == tmp[2] \o Colon \o port
            IN  [ret    |-> mountErr,
                 attach |-> <<[via |-> "iscsinl.MountIscsi",
                               initiator |-> ini.val,
                               ip |-> ip, volume |-> volume]>>,
                 panic  |-> FALSE]

\* uinit.go: scanIscsiDrives calls iscsinl to mount iscsi drives.
\* nr and ini are the two cmdline.Flag results, mountErr is what
\* iscsinl.MountIscsi returns when it is reached.
scanIscsiDrives(nr, ini, mountErr) ==
    IF ~nr.ok THEN ScanError("netroot flag is not set")
    ELSE
    LET val == nr.val
        s   == Split(val, DoubleColon)
    IN  IF Len(s) # 3 THEN ScanError("incorrect format ::")
        ELSE
        LET port   == s[2]
            volume == s[3]
            tmp    == Split(s[1], ColonAt)
        IN  IF Len(tmp) > 3 \/ Len(tmp) < 2 THEN ScanError("incorrect format :@")
            ELSE IF tmp[1] # iscsi THEN ScanError("incorrect format iscsi:")
            ELSE
            LET ip == tmp[2] \o Colon \o port
            IN  IF ~ini.ok THEN ScanError("rd.iscsi.initiator flag is not set")
                ELSE [ret    |-> mountErr,
                      attach |-> <<[via |-> "iscsinl.MountIscsi",
                                    initiator |-> ini.val,
                                    ip |-> ip, volume |-> volume]>>,
                      panic  |-> FALSE]

\* gunzip.go: scanIscsiDrives runs iscsistart.  tmp[2] of the source is
\* the third element: reading it when ":@" gave two segments is an index out
\* of range, a run-time panic.  execErr is what CombinedOutput returns.
scanIscsiDrives_gunzip(nr, ini, execErr) ==
    IF ~nr.ok THEN ScanError("Flag Not Set")
    ELSE
    LET val == nr.val
        s   == Split(val, DoubleColon)
    IN  IF Len(s) # 3 THEN ScanError("incorrect format ::")
        ELSE
        LET port   == s[2]
            target == s[3]
            tmp    == Split(s[1], ColonAt)
        IN  IF Len(tmp) > 3 \/ Len(tmp) < 2 THEN ScanError("incorrect format :@")
            ELSE IF tmp[1] # iscsi THEN ScanError("incorrect format iscsi:")
            ELSE
            LET tmp2 == Split(tmp[2], Comma)
                ip   == IF Len(tmp2) = 1 \/ Len(tmp2) = 2 THEN tmp[2] ELSE <<>>
            IN  IF Len(tmp2) = 2 /\ Len(tmp) < 3 THEN ScanPanic
                ELSE IF ~ini.ok THEN ScanError("Flag Not Set")
                ELSE [ret    |-> execErr,
                      attach |-> <<[via |-> "iscsistart",
                                    initiator |-> ini.val,
                                    ip |-> ip \o Colon \o Port3260,
                                    volume |-> target]>>,
                      panic  |-> FALSE]

----------------------------------------------------------------------------
(* The kernel command line and the other inputs of a run *)

NoExit == <<>>        \* exit is <<status>> once the process has exited

Heads == {
    iscsi \o ColonAt \o <<"a">>,                          \* iscsi:@a
    iscsi \o ColonAt \o <<"a", ",", "2">>,                \* iscsi:@a,2
    iscsi \o ColonAt \o <<"a">> \o ColonAt \o <<"2">>,    \* iscsi:@a:@2
    iscsi \o ColonAt \o <<"a", ",", "2">> \o ColonAt \o <<"2">>,
    iscsi \o ColonAt \o <<"a", ",", "2", ",", "3">>,      \* iscsi:@a,2,3
    iscsi \o ColonAt \o <<"a">> \o ColonAt \o <<"2">> \o ColonAt \o <<"x">>,
    iscsi \o ColonAt,                                     \* iscsi:@
    iscsi,                                                \* no ":@"
    <<"n", "f", "s">> \o ColonAt \o <<"a">>,              \* nfs:@a
    <<>> }

Ports == {Port3260, <<"1">>, <<>>}
Volumes == {<<"v">>, <<>>}

\* what follows the head: no segment, a port, a port and a volume, one more
Rests == {<<>>} \cup {<<q>> : q \in Ports}
         \cup {<<q, v>> : q \in Ports, v \in Volumes}
         \cup {<<Port3260, <<"v">>, <<"x">>>>}

Netroots == {[ok |-> FALSE, val |-> <<>>]}
            \cup {[ok |-> TRUE, val |-> Join(<<h>> \o r, DoubleColon)] :
                  h \in Heads, r \in Rests}

Initiators == {[ok |-> FALSE, val |-> <<>>], [ok |-> TRUE, val |-> <<>>],
               [ok |-> TRUE, val |-> <<"I">>]}

Errs == {"nil", "err"}

Call(op, n, res) == [op |-> op, n |-> n, res |-> res]

\* the calls of one attach attempt, as scanIscsiDrives made them
AttachCalls(r) == [i \in 1..Len(r.attach) |-> Call(r.attach[i].via, 0, r.ret)]

----------------------------------------------------------------------------
(* The orchestrator *)

\* log.Printf, log.Println, log.Print: the lines go to the current output of
\* package log
Log(o, lines) ==
    IF o.logOut = "logBuilder" THEN [o EXCEPT !.logBuilder = @ \o lines]
    ELSE IF o.logOut = "stdout" THEN [o EXCEPT !.stdout = @ \o lines]
    ELSE [o EXCEPT !.stderr = @ \o lines]

\* slaunch.Debug: log.Printf in uinit.go (line 41); in gunzip.go only when
\* the debug flag is set
Debug(o, lines) == IF prog = "sluinit" \/ slDebug THEN Log(o, lines) ELSE o

\* a step of main: its Debug banner, then the log line of its error, if any
StepLog(o, banner, e, failure) ==
    IF e # "nil" THEN Log(Debug(o, <<banner>>), <<failure>>)
    ELSE Debug(o, <<banner>>)

\* the four lines checkDebugFlag prints before it redirects the log
QuietNotice == <<"debug flag is not set, only errors logged to stderr",
                 "debug flag is not set, logs written to file",
                 "collecting measurements before kexec. please wait...",
                 "This could take a couple of minutes">>

BeforeInitiator == {"netroot flag is not set", "incorrect format ::",
                    "incorrect format :@", "incorrect format iscsi:"}

\* what scanIscsiDrives of uinit.go logs, r being its result; one line per
\* mounted device, one device here
ScanLog(nr, r) ==
    <<"Scanning kernel cmd line for *netroot* flag">>
    \o (IF nr.ok THEN <<"netroot flag is set with val=">> ELSE <<>>)
    \o (IF r.ret \notin BeforeInitiator
        THEN <<"Scanning kernel cmd line for *rd.iscsi.initiator* flag">>
        ELSE <<>>)
    \o (IF r.ret = "nil" THEN <<"Mounted at dev ">> ELSE <<>>)

\* what scanIscsiDrives of gunzip.go logs
ScanLog_gunzip(nr, ini, r) ==
    <<"Scanning kernel cmd line for *netroot* flag">>
    \o (IF nr.ok THEN <<"netroot flag is set with val=">>
        ELSE <<"sl_policy netroot flag is not set">>)
    \o (IF nr.ok /\ ~r.panic /\ r.ret \notin BeforeInitiator
        THEN <<"Scanning kernel cmd line for *rd.iscsi.initiator* flag">>
             \o (IF ini.ok THEN <<"Not using portalGroup, port", "Output:">>
                 ELSE <<"sl_policy rd.iscsi.initiator flag is not set">>)
        ELSE <<>>)

OutInit == [logOut |-> "stderr", logBuilder |-> <<>>, stdout |-> <<>>,
            stderr |-> <<>>, queued |-> <<>>]

MainInit ==
    /\ prog \in {"sluinit", "gunzip"}
    /\ slDebug \in BOOLEAN
    /\ nArg \in {1, 2}
    /\ netroot \in Netroots
    /\ initiator \in Initiators
    /\ pc = IF prog = "gunzip" THEN "init" ELSE "checkDebugFlag"
    /\ defers = <<>>
    /\ p = [Collectors |-> 0]
    /\ ci = 0
    /\ calls = <<>>
    /\ attach = <<>>
    /\ scanRet = "none"
    /\ exit = NoExit
    /\ out = OutInit

MainIdle ==
    /\ prog = "none"
    /\ slDebug = FALSE
    /\ nArg = 0
    /\ netroot = [ok |-> FALSE, val |-> <<>>]
    /\ initiator = [ok |-> FALSE, val |-> <<>>]
    /\ pc = "idle"
    /\ defers = <<>>
    /\ p = [Collectors |-> 0]
    /\ ci = 0
    /\ calls = <<>>
    /\ attach = <<>>
    /\ scanRet = "none"
    /\ exit = NoExit
    /\ out = OutInit

\* gunzip.go init(): runs before main; a scan error ends the process
InitFunc ==
    /\ pc = "init"
    /\ \E e \in Errs :
        LET r == scanIscsiDrives_gunzip(netroot, initiator, e)
            o == Log(out, ScanLog_gunzip(netroot, initiator, r))
        IN  /\ attach' = attach \o r.attach
            /\ IF r.panic
               THEN /\ scanRet' = "panic"
                    /\ calls' = calls \o <<Call("scanIscsiDrives", 0, "panic")>>
                    /\ exit' = <<2>>
                    /\ pc' = "exited"
                    /\ out' = [o EXCEPT !.stderr =
                                 @ \o <<"panic: runtime error: index out of range">>]
               ELSE IF r.ret # "nil"
               THEN /\ scanRet' = r.ret
                    /\ calls' = calls \o AttachCalls(r)
                                  \o <<Call("scanIscsiDrives", 0, r.ret),
                                       Call("os.Exit", 1, "noreturn")>>
                    /\ exit' = <<1>>
                    /\ pc' = "exited"
                    /\ out' = Log([o EXCEPT !.stdout =
                                     IF r.attach # <<>> THEN @ \o <<"err=">> ELSE @],
                                  <<"NO ISCSI DRIVES found">>)
               ELSE /\ scanRet' = "nil"
                    /\ calls' = calls \o AttachCalls(r)
                                  \o <<Call("scanIscsiDrives", 0, "nil")>>
                    /\ exit' = exit
                    /\ pc' = "checkDebugFlag"
                    /\ out' = o
    /\ UNCHANGED <<prog, slDebug, nArg, netroot, initiator, defers, p, ci, ev>>

\* checkDebugFlag(): more than one argument is fatal (log.Fatal exits with 1);
\* without the debug flag uinit.go sends the log to logBuilder from here on
checkDebugFlag ==
    /\ pc = "checkDebugFlag"
    /\ IF nArg > 1
       THEN /\ calls' = Append(calls, Call("log.Fatal", 1, "noreturn"))
            /\ exit' = <<1>>
            /\ pc' = "exited"
            /\ out' = Log(out, <<"Incorrect number of arguments">>)
       ELSE /\ calls' = calls
            /\ exit' = exit
            /\ pc' = IF prog = "sluinit" THEN "scan" ELSE "tpm"
            /\ out' = IF slDebug THEN Debug(out, <<"debug flag is set">>)
                      ELSE IF prog = "sluinit"
                      THEN Log([Log(out, QuietNotice) EXCEPT !.logOut = "logBuilder"],
                               <<"">>)
                      ELSE out
    /\ UNCHANGED <<prog, slDebug, nArg, netroot, initiator, defers, p, ci,
                   attach, scanRet, ev>>

\* uinit.go main, step 0: an error of scanIscsiDrives is logged only
MainScan ==
    /\ pc = "scan"
    /\ \E e \in Errs :
        LET r == scanIscsiDrives(netroot, initiator, e)
            o == Log(Debug(out, <<"Step 0: mount iscsi drives if any">>),
                     ScanLog(netroot, r))
        IN  /\ attach' = attach \o r.attach
            /\ scanRet' = r.ret
            /\ calls' = calls \o AttachCalls(r)
                          \o <<Call("scanIscsiDrives", 0, r.ret)>>
            /\ out' = IF r.ret # "nil" THEN Log(o, <<"NO ISCSI DRIVES found">>)
                      ELSE o
    /\ pc' = "tpm"
    /\ UNCHANGED <<prog, slDebug, nArg, netroot, initiator, defers, p, ci,
                   exit, ev>>

TpmNew == IF prog = "gunzip" THEN "tpm.GetHandle" ELSE "tpm.New"

\* Faulty MainTpm: tpm.Close is deferred before unmountAndExit.
MainTpm_closeFirst ==
    /\ pc = "tpm"
    /\ \E e \in Errs :
        /\ calls' = Append(calls, Call(TpmNew, 0, e))
        /\ out' = StepLog(out, "Step 1: get TPM Handle", e, "tpm.New() failed")
        /\ IF e # "nil"
           THEN /\ defers' = Append(defers, "unmountAndExit")
                /\ pc' = "return"
           ELSE /\ defers' = defers \o <<"tpm.Close", "unmountAndExit">>
                /\ pc' = "policy"
    /\ UNCHANGED <<prog, slDebug, nArg, netroot, initiator, p, ci, attach,
                   scanRet, exit, ev>>

\* Faulty MainTpm: tpm.Close is deferred before the error of tpm.New is looked at.
MainTpm_deferBeforeCheck ==
    /\ pc = "tpm"
    /\ \E e \in Errs :
        /\ calls' = Append(calls, Call(TpmNew, 0, e))
        /\ out' = StepLog(out, "Step 1: get TPM Handle", e, "tpm.New() failed")
        /\ defers' = defers \o <<"unmountAndExit", "tpm.Close">>
        /\ pc' = IF e # "nil" THEN "return" ELSE "policy"
    /\ UNCHANGED <<prog, slDebug, nArg, netroot, initiator, p, ci, attach,
                   scanRet, exit, ev>>

\* main, step 1: defer unmountAndExit(); tpm.New(); defer tpm.Close()
MainTpm ==
    /\ pc = "tpm"
    /\ \E e \in Errs :
        /\ calls' = Append(calls, Call(TpmNew, 0, e))
        /\ out' = StepLog(out, "Step 1: get TPM Handle", e, "tpm.New() failed")
        /\ IF e # "nil"
           THEN /\ defers' = Append(defers, "unmountAndExit")
                /\ pc' = "return"
           ELSE /\ defers' = defers \o <<"unmountAndExit", "tpm.Close">>
                /\ pc' = "policy"
    /\ UNCHANGED <<prog, slDebug, nArg, netroot, initiator, p, ci, attach,
                   scanRet, exit, ev>>

\* main, step 2: policy.Get()
MainPolicy ==
    /\ pc = "policy"
    /\ \E e \in Errs, n \in 0..MaxCollectors :
        /\ calls' = Append(calls, Call("policy.Get", 0, e))
        /\ IF e # "nil"
           THEN /\ pc' = "return"
                /\ out' = StepLog(out, "Step 2: locate and parse SL Policy", e,
                                  "failed to get policy")
                /\ UNCHANGED <<p, ci>>
           ELSE /\ p' = [Collectors |-> n]
                /\ ci' = 1
                /\ pc' = IF n = 0 THEN "measure" ELSE "collect"
                /\ out' = Debug(out, <<"Step 2: locate and parse SL Policy",
                                       "policy file successfully parsed",
                                       "Step 3: Collecting Evidence">>
                                     \o (IF n = 0 THEN <<"Collectors completed">>
                                         ELSE <<>>))
    /\ UNCHANGED <<prog, slDebug, nArg, netroot, initiator, defers, attach,
                   scanRet, exit, ev>>

\* Faulty MainCollect: a failing Collector ends the run.
MainCollect_abort ==
    /\ pc = "collect"
    /\ \E e \in Errs :
        /\ calls' = Append(calls, Call("Collect", ci, e))
        /\ ci' = ci + 1
        /\ pc' = IF e # "nil" THEN "return"
                 ELSE IF ci = p.Collectors THEN "measure" ELSE "collect"
        /\ out' = StepLog(out, "Input Collector", e, "Collector failed")
    /\ UNCHANGED <<prog, slDebug, nArg, netroot, initiator, defers, p, attach,
                   scanRet, exit, ev>>

\* main, step 3: one iteration of "for _, c := range p.Collectors"
MainCollect ==
    /\ pc = "collect"
    /\ \E e \in Errs :
        /\ calls' = Append(calls, Call("Collect", ci, e))
        /\ ci' = ci + 1
        /\ pc' = IF ci = p.Collectors THEN "measure" ELSE "collect"
        /\ out' = Debug(StepLog(out, "Input Collector", e, "Collector failed"),
                        IF ci = p.Collectors THEN <<"Collectors completed">>
                        ELSE <<>>)
    /\ UNCHANGED <<prog, slDebug, nArg, netroot, initiator, defers, p, attach,
                   scanRet, exit, ev>>

\* Faulty MainMeasure: the error of MeasureKernel is logged only.
MainMeasure_noReturn ==
    /\ pc = "measure"
    /\ \E e \in Errs :
        /\ calls' = Append(calls, Call("Launcher.MeasureKernel", 0, e))
        /\ pc' = "parse"
        /\ out' = StepLog(out, "Step 4: Measuring target kernel, initrd", e,
                          "Launcher.MeasureKernel failed")
    /\ UNCHANGED <<prog, slDebug, nArg, netroot, initiator, defers, p, ci,
                   attach, scanRet, exit, ev>>

\* main, step 4: p.Launcher.MeasureKernel()
MainMeasure ==
    /\ pc = "measure"
    /\ \E e \in Errs :
        /\ calls' = Append(calls, Call("Launcher.MeasureKernel", 0, e))
        /\ pc' = IF e # "nil" THEN "return" ELSE "parse"
        /\ out' = StepLog(out, "Step 4: Measuring target kernel, initrd", e,
                          "Launcher.MeasureKernel failed")
    /\ UNCHANGED <<prog, slDebug, nArg, netroot, initiator, defers, p, ci,
                   attach, scanRet, exit, ev>>

\* Faulty MainParse: after EventLog.Parse the persist queue is not flushed.
MainParse_skipPersist ==
    /\ pc = "parse"
    /\ \E e \in Errs :
        /\ calls' = Append(calls, Call("EventLog.Parse", 0, e))
        /\ pc' = IF e # "nil" THEN "return" ELSE "unmount"
        /\ out' = StepLog(out, "Step 5: Parse eventlogs", e,
                          "EventLog.Parse() failed")
    /\ UNCHANGED <<prog, slDebug, nArg, netroot, initiator, defers, p, ci,
                   attach, scanRet, exit, ev>>

\* main, step 5: p.EventLog.Parse()
MainParse ==
    /\ pc = "parse"
    /\ \E e \in Errs :
        /\ calls' = Append(calls, Call("EventLog.Parse", 0, e))
        /\ pc' = IF e # "nil" THEN "return" ELSE "persist"
        /\ out' = StepLog(out, "Step 5: Parse eventlogs", e,
                          "EventLog.Parse() failed")
    /\ UNCHANGED <<prog, slDebug, nArg, netroot, initiator, defers, p, ci,
                   attach, scanRet, exit, ev>>

\* Faulty MainPersist: the log text is queued whatever the debug flag.
MainPersist_alwaysQueue ==
    /\ pc = "persist"
    /\ \E e \in Errs :
        /\ calls' = calls
                    \o (IF prog = "sluinit"
                        THEN <<Call("slaunch.AddToPersistQueue", 0, "nil")>>
                        ELSE <<>>)
                    \o <<Call("slaunch.ClearPersistQueue", 0, e)>>
        /\ pc' = IF e # "nil" THEN "return" ELSE "unmount"
        /\ out' = StepLog([out EXCEPT !.queued =
                             IF prog = "sluinit"
                             THEN Append(@, out.logBuilder) ELSE @],
                          "Step 6: Dump logs to disk", e,
                          "ClearPersistQueue failed")
    /\ UNCHANGED <<prog, slDebug, nArg, netroot, initiator, defers, p, ci,
                   attach, scanRet, exit, ev>>

\* main, step 6: queue the buffered log (uinit.go, not in debug mode), then
\* slaunch.ClearPersistQueue()
MainPersist ==
    /\ pc = "persist"
    /\ \E e \in Errs :
        /\ calls' = calls
                    \o (IF prog = "sluinit" /\ ~slDebug
                        THEN <<Call("slaunch.AddToPersistQueue", 0, "nil")>>
                        ELSE <<>>)
                    \o <<Call("slaunch.ClearPersistQueue", 0, e)>>
        /\ pc' = IF e # "nil" THEN "return" ELSE "unmount"
        /\ out' = StepLog([out EXCEPT !.queued =
                             IF prog = "sluinit" /\ ~slDebug
                             THEN Append(@, out.logBuilder) ELSE @],
                          "Step 6: Dump logs to disk", e,
                          "ClearPersistQueue failed")
    /\ UNCHANGED <<prog, slDebug, nArg, netroot, initiator, defers, p, ci,
                   attach, scanRet, exit, ev>>

\* main, step *: slaunch.UnmountAll()
MainUnmount ==
    /\ pc = "unmount"
    /\ calls' = Append(calls, Call("slaunch.UnmountAll", 0, "nil"))
    /\ pc' = "boot"
    /\ out' = Debug(out, <<"Step *: Unmount all">>)
    /\ UNCHANGED <<prog, slDebug, nArg, netroot, initiator, defers, p, ci,
                   attach, scanRet, exit, ev>>

\* Faulty MainBoot: a Boot that returns without an error ends the process as
\* a success, with status 0 and without the deferred calls.
MainBoot_nilIsSuccess ==
    /\ pc = "boot"
    /\ \E o \in {"err", "nil", "noreturn"} :
        /\ calls' = Append(calls, Call("Launcher.Boot", 0, o))
        /\ pc' = IF o = "noreturn" THEN "kexec"
                 ELSE IF o = "nil" THEN "exited" ELSE "return"
        /\ exit' = IF o = "nil" THEN <<0>> ELSE exit
        /\ out' = StepLog(out, "Step 7: Launcher called to Boot",
                          IF o = "err" THEN "err" ELSE "nil", "Boot failed")
    /\ UNCHANGED <<prog, slDebug, nArg, netroot, initiator, defers, p, ci,
                   attach, scanRet, ev>>

\* main, step 7: p.Launcher.Boot().  On success Boot does not return (the
\* next kernel runs); when it returns, with an error or without, main returns.
MainBoot ==
    /\ pc = "boot"
    /\ \E o \in {"err", "nil", "noreturn"} :
        /\ calls' = Append(calls, Call("Launcher.Boot", 0, o))
        /\ pc' = IF o = "noreturn" THEN "kexec" ELSE "return"
        /\ out' = StepLog(out, "Step 7: Launcher called to Boot",
                          IF o = "err" THEN "err" ELSE "nil", "Boot failed")
    /\ UNCHANGED <<prog, slDebug, nArg, netroot, initiator, defers, p, ci,
                   attach, scanRet, exit, ev>>

\* main returns: the deferred tpm.Close() is the last pushed, it runs first
DeferredTpmClose ==
    /\ pc = "return"
    /\ Len(defers) > 0
    /\ defers[Len(defers)] = "tpm.Close"
    /\ calls' = Append(calls, Call("tpm.Close", 0, "nil"))
    /\ defers' = SubSeq(defers, 1, Len(defers) - 1)
    /\ UNCHANGED <<prog, slDebug, nArg, netroot, initiator, pc, p, ci, attach,
                   scanRet, exit, out, ev>>

\* uinit.go unmountAndExit, not in debug mode: the log goes back to os.Stdout,
\* two lines are printed and then the text of logBuilder
DumpLog(o) ==
    IF prog = "sluinit" /\ ~slDebug
    THEN LET back == [o EXCEPT !.logOut = "stdout"]
         IN  Log(Log(back, <<"exiting on error. log output set back to stdout",
                             "len=">>),
                 back.logBuilder)
    ELSE o

\* Faulty unmountAndExit: the process exits with status 0.
unmountAndExit_status0 ==
    /\ pc = "return"
    /\ Len(defers) > 0
    /\ defers[Len(defers)] = "unmountAndExit"
    /\ calls' = calls \o <<Call("unmountAndExit", 0, "noreturn"),
                           Call("slaunch.UnmountAll", 0, "nil"),
                           Call("time.Sleep", 5, "nil"),
                           Call("os.Exit", 0, "noreturn")>>
    /\ defers' = SubSeq(defers, 1, Len(defers) - 1)
    /\ exit' = <<0>>
    /\ pc' = "exited"
    /\ out' = DumpLog(out)
    /\ UNCHANGED <<prog, slDebug, nArg, netroot, initiator, p, ci, attach,
                   scanRet, ev>>

\* the deferred unmountAndExit(): unmount all devices, sleep, dump the
\* buffered log, exit with 1
unmountAndExit ==
    /\ pc = "return"
    /\ Len(defers) > 0
    /\ defers[Len(defers)] = "unmountAndExit"
    /\ calls' = calls \o <<Call("unmountAndExit", 0, "noreturn"),
                           Call("slaunch.UnmountAll", 0, "nil"),
                           Call("time.Sleep", 5, "nil"),
                           Call("os.Exit", 1, "noreturn")>>
    /\ defers' = SubSeq(defers, 1, Len(defers) - 1)
    /\ exit' = <<1>>
    /\ pc' = "exited"
    /\ out' = DumpLog(out)
    /\ UNCHANGED <<prog, slDebug, nArg, netroot, initiator, p, ci, attach,
                   scanRet, ev>>

----------------------------------------------------------------------------
(* Specifications *)

Init == MainInit /\ ev = EvIdle

Next ==
    \/ InitFunc
    \/ checkDebugFlag
    \/ MainScan
    \/ MainTpm
    \/ MainPolicy
    \/ MainCollect
    \/ MainMeasure
    \/ MainParse
    \/ MainPersist
    \/ MainUnmount
    \/ MainBoot
    \/ DeferredTpmClose
    \/ unmountAndExit

Spec == Init /\ [][Next]_vars

\* the measurement package on its own: one event, marshalled or sent
InitEnc == MainIdle /\ EvInit

NextEnc == MarshalPcrEvent \/ SendEventToSysfs

SpecEnc == InitEnc /\ [][NextEnc]_vars

\* The same program under the fairness the Go runtime gives: when main
\* returns, its deferred calls run.
FairSpec == Spec /\ WF_vars(DeferredTpmClose) /\ WF_vars(unmountAndExit)

----------------------------------------------------------------------------
(* Reading the trace of calls *)

Ops(op) == {i \in DOMAIN calls : calls[i].op = op}
Count(op) == Cardinality(Ops(op))
Succeeded(op) == \E i \in Ops(op) : calls[i].res = "nil"
Failed(op) == \E i \in Ops(op) : calls[i].res = "err"

AnchorOps == {"tpm.New", "tpm.GetHandle"}
AnchorAcquired == \E op \in AnchorOps : Succeeded(op)

\* the five steps Boot depends on, the first under either of its names
RequiredSteps == {AnchorOps, {"policy.Get"}, {"Launcher.MeasureKernel"},
                  {"EventLog.Parse"}, {"slaunch.ClearPersistQueue"}}

FatalFailed == \E s \in RequiredSteps : \E op \in s : Failed(op)

BootInvoked == Ops("Launcher.Boot") # {}

----------------------------------------------------------------------------
(* Claims *)

\* C1: fail-closed.  Launcher.Boot is invoked only after tpm.New, policy.Get,
\* Launcher.MeasureKernel, EventLog.Parse and ClearPersistQueue have each
\* returned success in this run; once one of them has returned an error,
\* Boot is never invoked.
FailClosed ==
    /\ \A i \in Ops("Launcher.Boot") :
         \A s \in RequiredSteps :
           \E j \in 1..(i - 1) : calls[j].op \in s /\ calls[j].res = "nil"
    /\ FatalFailed => ~BootInvoked

\* a run of uinit.go's main that reached Boot, one Collector having failed
BootReached ==
    /\ prog = "sluinit"
    /\ BootInvoked
    /\ Failed("Collect")

\* C2: when eventlog.Add rejects the encoded event, sendEventToSysfs returns
\* a non-nil error.
SinkErrorPropagated ==
    (ev.pc = "sent" /\ ev.addErr # "nil") => ev.ret # "nil"

IsCollect(c) == c.op = "Collect"
Collected == SelectSeq(calls, IsCollect)

\* C3: collector failures never abort the run.  Whatever the Collectors
\* return, they are invoked once each, in policy order, one after the other,
\* and after the last one the run is at MeasureKernel (or has called it).
CollectorsNeverAbort ==
    Succeeded("policy.Get") =>
        /\ \A k \in DOMAIN Collected : Collected[k].n = k
        /\ pc = "collect" => /\ ci <= p.Collectors
                             /\ Len(Collected) = ci - 1
                             /\ exit = NoExit
        /\ pc # "collect" => /\ Len(Collected) = p.Collectors
                             /\ pc = "measure" \/ Count("Launcher.MeasureKernel") = 1

\* every Collector of a policy of two or more failed, MeasureKernel was called
AllCollectorsFailedThenMeasured ==
    /\ p.Collectors >= 2
    /\ Len(Collected) = p.Collectors
    /\ \A k \in DOMAIN Collected : Collected[k].res = "err"
    /\ Count("Launcher.MeasureKernel") = 1

\* unmountAndExit ran once, called UnmountAll, and the process exited non-zero
CleanedUpOnce ==
    /\ pc = "exited"
    /\ exit # NoExit /\ exit # <<0>>
    /\ Count("unmountAndExit") = 1
    /\ \A i \in Ops("unmountAndExit") :
         i < Len(calls) /\ calls[i + 1].op = "slaunch.UnmountAll"
    /\ ~BootInvoked

\* C4: if MeasureKernel (or tpm.New, policy.Get, EventLog.Parse,
\* ClearPersistQueue) fails, Boot is not invoked, unmountAndExit runs, exactly
\* once, slaunch.UnmountAll is called in it, and the process terminates with
\* a non-zero exit status.
CleanupOnFatal ==
    /\ [](FatalFailed => /\ ~BootInvoked
                         /\ Count("unmountAndExit") <= 1
                         /\ pc \in {"return", "exited"}
                         /\ pc = "exited" => CleanedUpOnce)
    /\ (FatalFailed ~> CleanedUpOnce)

\* the run in which MeasureKernel failed has ended
MeasureFailedAndExited ==
    /\ Failed("Launcher.MeasureKernel")
    /\ pc = "exited"

\* C5: slaunch.UnmountAll is invoked at most once in a run; the release done
\* before launch is not repeated by the deferred unmountAndExit.
UnmountAllAtMostOnce == Count("slaunch.UnmountAll") <= 1

\* C6: in a run in which tpm.New succeeded, tpm.Close has been called exactly
\* once when the run has ended, by exit or by Boot starting the next kernel.
TpmClosedOnEveryExit ==
    (AnchorAcquired /\ pc \in {"exited", "kexec"}) => Count("tpm.Close") = 1

Marshalled == ev.pc \in {"marshalled", "sent"}

\* C7: the output of marshalPcrEvent is 16 + len(digest) + 4 +
\* len(description) bytes long, the digest starts at offset 16, and the first
\* 4 bytes, little-endian, are the PCR index.
MarshalLength ==
    Marshalled =>
        /\ Len(ev.b) = 16 + Len(ev.h) + 4 + Len(ev.eventDesc)
        /\ DecodeLE(SubSeq(ev.b, 1, 4)) = ev.pcr
        /\ SubSeq(ev.b, 17, 16 + Len(ev.h)) = ev.h

\* marshalPcrEvent(17, zero32, "test") gave 16 + 32 + 4 + 4 = 56 bytes
MarshalledExample ==
    /\ ev.pc = "marshalled"
    /\ ev.pcr = 17 /\ ev.h = zero32 /\ ev.eventDesc = descTest
    /\ Len(ev.b) = 56
    /\ DecodeLE(SubSeq(ev.b, 49, 52)) = 4
    /\ SubSeq(ev.b, 53, 56) = descTest

\* C8: the output of marshalPcrEvent ends with the description, preceded by
\* its length as 4 little-endian bytes, preceded by the digest as supplied,
\* nothing between them; bytes 4..12 are eventType 0x400 + 0x102 and
\* digestCount 1, little-endian.
MarshalTail ==
    Marshalled =>
        LET n == Len(ev.b)
            d == Len(ev.eventDesc)
            k == Len(ev.h)
        IN  /\ n >= 12 + k + 4 + d
            /\ SubSeq(ev.b, n - d + 1, n) = ev.eventDesc
            /\ DecodeLE(SubSeq(ev.b, n - d - 3, n - d)) = d
            /\ SubSeq(ev.b, n - d - 4 - k + 1, n - d - 4) = ev.h
            /\ SubSeq(ev.b, 5, 8) = <<2, 5, 0, 0>>
            /\ SubSeq(ev.b, 9, 12) = <<1, 0, 0, 0>>

\* an event with a digest and a description, neither empty nor all zero, sent
MarshalledNonEmpty ==
    /\ ev.pc = "sent"
    /\ Len(ev.h) >= 2 /\ ev.h[1] = 255
    /\ Len(ev.eventDesc) >= 2 /\ ev.eventDesc[1] = 116

ScanErrors == {"netroot flag is not set", "Flag Not Set",
               "incorrect format ::", "incorrect format :@",
               "incorrect format iscsi:",
               "rd.iscsi.initiator flag is not set", "err"}

\* C9: an error of scanIscsiDrives does not end the process: the run goes on
\* to trust-anchor acquisition.
ScanErrorNonFatal ==
    scanRet \in ScanErrors =>
        \/ pc # "exited"
        \/ \E op \in AnchorOps : Count(op) >= 1

\* the netroot value breaks one of the three structural rules
Malformed(val) ==
    LET s == Split(val, DoubleColon)
    IN  \/ Len(s) # 3
        \/ Len(Split(s[1], ColonAt)) \notin {2, 3}
        \/ Split(s[1], ColonAt)[1] # iscsi

\* C10: scanIscsiDrives of uinit.go returns an error and never calls
\* iscsinl.MountIscsi when the netroot value does not split into 3 segments
\* on "::", or its first segment not into 2 or 3 on ":@", or the first token
\* is not "iscsi", or when the netroot or the initiator flag is absent.
ScanRejectsMalformed ==
    (/\ prog = "sluinit"
     /\ scanRet # "none"
     /\ ~netroot.ok \/ ~initiator.ok \/ Malformed(netroot.val))
    => /\ scanRet \in ScanErrors
       /\ attach = <<>>
       /\ Count("iscsinl.MountIscsi") = 0

\* a netroot value with both flags set and a first token other than "iscsi"
\* was scanned
ScannedNotIscsi ==
    /\ prog = "sluinit"
    /\ netroot.ok /\ initiator.ok
    /\ scanRet = "incorrect format iscsi:"

\* the fields of the descriptor a structurally accepted netroot value holds
ParsedAddress(val) == Split(Split(val, DoubleColon)[1], ColonAt)[2]
ParsedPort(val) == Split(val, DoubleColon)[2]
ParsedVolume(val) == Split(val, DoubleColon)[3]

\* C11: when the parsing part of scanIscsiDrives (uinit.go) succeeds and the
\* attach call is reached, the address, port, volume and initiator handed on
\* are all non-empty strings.
DescriptorNonEmpty ==
    (prog = "sluinit" /\ attach # <<>>) =>
        /\ ParsedAddress(netroot.val) # <<>>
        /\ ParsedPort(netroot.val) # <<>>
        /\ \A i \in DOMAIN attach : /\ attach[i].volume # <<>>
                                    /\ attach[i].initiator # <<>>
                                    /\ attach[i].ip # Colon

\* the netroot value has the form iscsi:@A::P::V, A without ":@", none of
\* A, P and V empty
WellFormed(val) ==
    /\ ~Malformed(val)
    /\ Len(Split(Split(val, DoubleColon)[1], ColonAt)) = 2
    /\ ParsedAddress(val) # <<>>
    /\ ParsedPort(val) # <<>>
    /\ ParsedVolume(val) # <<>>

\* C12: for a well-formed netroot value iscsi:@A::P::V and an initiator value
\* I, the attach step is invoked with target "A:P" (the parsed port, never a
\* fixed one), volume V and initiator I.
AttachUsesParsedPort ==
    (scanRet # "none" /\ netroot.ok /\ initiator.ok /\ WellFormed(netroot.val))
    => /\ Len(attach) = 1
       /\ attach[1].ip = ParsedAddress(netroot.val) \o Colon
                           \o ParsedPort(netroot.val)
       /\ attach[1].volume = ParsedVolume(netroot.val)
       /\ attach[1].initiator = initiator.val

\* C18: on a netroot value that passes the "::" and ":@" segment-count checks
\* and the "iscsi" check, scanIscsiDrives ends by returning nil or an error,
\* never by an index out of range.
ScanNeverPanics ==
    (scanRet # "none" /\ netroot.ok /\ ~Malformed(netroot.val))
    => scanRet # "panic"

ThroughFinalizer ==
    /\ pc = "exited"
    /\ exit = <<1>>
    /\ Count("unmountAndExit") = 1

\* C13 as stated: every run of uinit.go that has ended without starting the
\* next kernel has ended through unmountAndExit, with exit status 1.
EveryExitThroughFinalizer ==
    (prog = "sluinit" /\ pc = "exited") => ThroughFinalizer

\* C13, amended: no run exits with status 0; once main has returned, after a
\* failed step or after Launcher.Boot came back with or without an error, the
\* process ends through unmountAndExit with exit status 1; the runs that end
\* otherwise never entered main's steps (log.Fatal of checkDebugFlag, the
\* os.Exit or the panic of gunzip.go's init).
MainReturnImpliesFailure ==
    /\ [](exit # <<0>>)
    /\ [](pc = "return" => exit = NoExit)
    /\ [](BootInvoked /\ pc = "exited" => ThroughFinalizer)
    /\ [](pc = "exited" => \/ ThroughFinalizer
                           \/ /\ Count("log.Fatal") + Count("os.Exit") = 1
                              /\ Count("unmountAndExit") = 0
                              /\ exit = <<1>>
                              /\ Ops(TpmNew) = {}
                           \/ /\ scanRet = "panic"
                              /\ Ops(TpmNew) = {})
    /\ (pc = "return" ~> ThroughFinalizer)

\* Launcher.Boot returned without an error and the process has exited
BootReturnedNilAndExited ==
    /\ prog = "sluinit"
    /\ \E i \in Ops("Launcher.Boot") : calls[i].res = "nil"
    /\ ThroughFinalizer

\* the calls of main's steps, those of the deferred calls left out
FirstDeferred ==
    LET d == Ops("tpm.Close") \cup Ops("unmountAndExit")
    IN  IF d = {} THEN Len(calls) + 1
        ELSE CHOOSE i \in d : \A j \in d : i <= j

StepOps == {"scanIscsiDrives", TpmNew, "policy.Get", "Collect",
            "Launcher.MeasureKernel", "EventLog.Parse",
            "slaunch.ClearPersistQueue", "slaunch.UnmountAll", "Launcher.Boot"}

IsStep(c) == c.op \in StepOps

Steps ==
    LET body == SelectSeq(SubSeq(calls, 1, FirstDeferred - 1), IsStep)
    IN  [i \in DOMAIN body |-> <<body[i].op, body[i].n>>]

LinearOrder(n) ==
    <<<<"scanIscsiDrives", 0>>, <<TpmNew, 0>>, <<"policy.Get", 0>>>>
    \o [i \in 1..n |-> <<"Collect", i>>]
    \o <<<<"Launcher.MeasureKernel", 0>>, <<"EventLog.Parse", 0>>,
         <<"slaunch.ClearPersistQueue", 0>>, <<"slaunch.UnmountAll", 0>>,
         <<"Launcher.Boot", 0>>>>

\* C14: the steps of main occur as a prefix of scanIscsiDrives, tpm.New,
\* policy.Get, Collect of each Collector in turn, MeasureKernel,
\* EventLog.Parse, ClearPersistQueue, UnmountAll, Boot; no Collector runs
\* before tpm.New has succeeded; Boot comes right after UnmountAll, which
\* comes after a successful ClearPersistQueue.
StrictLinearOrder ==
    /\ Len(Steps) <= Len(LinearOrder(p.Collectors))
    /\ Steps = SubSeq(LinearOrder(p.Collectors), 1, Len(Steps))
    /\ \A i \in Ops("Collect") :
         \E j \in Ops(TpmNew) : j < i /\ calls[j].res = "nil"
    /\ \A i \in Ops("Launcher.Boot") :
         /\ i > 2
         /\ calls[i - 1].op = "slaunch.UnmountAll"
         /\ \E j \in Ops("slaunch.ClearPersistQueue") :
              j < i - 1 /\ calls[j].res = "nil"

\* a run of uinit.go with two Collectors went through every step
AllStepsTaken ==
    /\ prog = "sluinit"
    /\ pc = "kexec"
    /\ p.Collectors = 2
    /\ Steps = LinearOrder(2)

\* C16: when main returns after tpm.New has succeeded, tpm.Close runs before
\* unmountAndExit starts, so before the UnmountAll and the os.Exit of
\* unmountAndExit; the process never exits through unmountAndExit with the
\* TPM still open.
CloseBeforeFinalizer ==
    AnchorAcquired =>
        /\ \A j \in Ops("unmountAndExit") :
             /\ \E i \in Ops("tpm.Close") : i < j
             /\ \A k \in Ops("os.Exit") : j < k
             /\ calls[j + 1].op = "slaunch.UnmountAll"
        /\ (pc = "exited" /\ Count("unmountAndExit") = 1)
             => Count("tpm.Close") = 1
        /\ (pc = "return" /\ Count("tpm.Close") = 0)
             => defers = <<"unmountAndExit", "tpm.Close">>

\* policy.Get failed after tpm.New had succeeded, and the process has exited
PolicyFailedAndExited ==
    /\ prog = "sluinit"
    /\ AnchorAcquired
    /\ Failed("policy.Get")
    /\ ThroughFinalizer

LaterSteps == {"policy.Get", "Collect", "Launcher.MeasureKernel",
               "EventLog.Parse", "slaunch.AddToPersistQueue",
               "slaunch.ClearPersistQueue", "Launcher.Boot"}

AnchorFailedCleanup ==
    /\ ThroughFinalizer
    /\ Count("slaunch.UnmountAll") = 1
    /\ Count("tpm.Close") = 0

\* C17: if tpm.New fails, tpm.Close is never called, no policy, Collector,
\* measurement, event-log or persistence step runs, and unmountAndExit still
\* calls slaunch.UnmountAll once and exits with status 1.
ReleaseOnlyAcquired ==
    /\ [](Failed(TpmNew) =>
            /\ Count("tpm.Close") = 0
            /\ \A op \in LaterSteps : Ops(op) = {}
            /\ pc \in {"return", "exited"}
            /\ Count("slaunch.UnmountAll") <= 1
            /\ pc = "exited" => AnchorFailedCleanup)
    /\ (Failed(TpmNew) ~> AnchorFailedCleanup)

\* tpm.New failed in uinit.go and the process has exited
AnchorFailedAndExited ==
    /\ prog = "sluinit"
    /\ Failed("tpm.New")
    /\ AnchorFailedCleanup

\* C15: unmountAndExit calls UnmountAll, then sleeps 5 seconds, then exits;
\* without the debug flag the text buffered in logBuilder is written to
\* standard error before the exit, and nothing else is; with the debug flag
\* nothing is buffered and nothing is dumped.
CleanupDiagnostics ==
    (prog = "sluinit" /\ Count("unmountAndExit") = 1) =>
        /\ \A j \in Ops("unmountAndExit") :
             /\ calls[j + 1] = Call("slaunch.UnmountAll", 0, "nil")
             /\ calls[j + 2] = Call("time.Sleep", 5, "nil")
             /\ calls[j + 3] = Call("os.Exit", 1, "noreturn")
        /\ IF slDebug
           THEN /\ out.logBuilder = <<>>
                /\ out.logOut = "stderr"
                /\ out.stdout = <<>>
           ELSE /\ out.stderr = QuietNotice \o out.logBuilder
                /\ out.stdout = <<>>

AddOp == "slaunch.AddToPersistQueue"
ClearOp == "slaunch.ClearPersistQueue"

IsPrefix(s, t) == Len(s) <= Len(t) /\ s = SubSeq(t, 1, Len(s))

\* C19: without the debug flag uinit.go hands the text of logBuilder to
\* AddToPersistQueue once, directly after EventLog.Parse has succeeded and
\* directly before ClearPersistQueue; with the debug flag it never does; in a
\* run in which EventLog.Parse has not succeeded nothing is queued and
\* ClearPersistQueue is not called.
PersistBufferedLog ==
    prog = "sluinit" =>
        /\ Len(out.queued) = Count(AddOp)
        /\ slDebug => Count(AddOp) = 0
        /\ ~slDebug =>
             /\ Count(AddOp) <= 1
             /\ Count(ClearOp) = Count(AddOp)
             /\ \A i \in Ops(AddOp) :
                  /\ i > 1 /\ i < Len(calls)
                  /\ calls[i - 1] = Call("EventLog.Parse", 0, "nil")
                  /\ calls[i + 1].op = ClearOp
             /\ \A k \in DOMAIN out.queued :
                  /\ out.queued[k] # <<>>
                  /\ IsPrefix(out.queued[k], out.logBuilder)
        /\ ~Succeeded("EventLog.Parse") =>
             /\ Count(AddOp) = 0
             /\ Count(ClearOp) = 0
        /\ Count(ClearOp) <= 1

\* a run without the debug flag has queued its log and flushed the queue
LogQueuedAndFlushed ==
    /\ prog = "sluinit"
    /\ ~slDebug
    /\ Count(AddOp) = 1
    /\ Succeeded(ClearOp)
    /\ Len(out.queued) = 1
    /\ Len(out.queued[1]) > 1

=============================================================================
